---- MODULE Spec2Model ----
(***************************************************************************)
(* Memory-mapped file reader and writer (mmap_reader.hpp, mmap_writer.hpp) *)
(* with the mapped_file of mmap_file.hpp and the constructor of the older  *)
(* writer of mmap_writer.cpp, over a small model of the kernel objects     *)
(* they use: one regular file, the descriptor table and the table of live  *)
(* mappings.                                                               *)
(*                                                                         *)
(* Sizes are scaled: size_t is SizeBits wide, off_t one bit less, and the  *)
(* 8192 of the source (default expand_size, default initial capacity) is   *)
(* DefaultExpand.  A MAP_SHARED mapping and the file are one store: a byte *)
(* of a mapping at offset o is byte o of the file while o is inside both.  *)
(***************************************************************************)
EXTENDS Integers, Sequences, FiniteSets, TLC

\* ------------------------------------------------------------- bounds
\* width of size_t in bits (64 in the build)
SizeBits == 4
\* largest file length the file system grants (EFBIG / ENOSPC above it)
MaxFileLen == 3
\* longest span handed to write / pwrite / read
MaxData == 2
\* the scaled 8192: default expand_size and default initial capacity
DefaultExpand == 1

\* ------------------------------------------------------------- numbers
SizeMod == 2 ^ SizeBits
SizeMax == SizeMod - 1
\* largest off_t / ptrdiff_t: the signed type of the same width
OffMax == 2 ^ (SizeBits - 1) - 1
SizeT == 0 .. SizeMax

Min(a, b) == IF a < b THEN a ELSE b
Max(a, b) == IF a < b THEN b ELSE a

\* a descriptor that is no descriptor, and the null pointer
NoFd == -1
nullptr == 0

\* data bytes; 0 is the byte ftruncate fills an extended file with
Bytes == {1, 2}
Fds == {3, 4, 5, 6}
Addrs == {1, 2, 3}

\* the descriptor the caller opened on the file before handing it over,
\* and a descriptor number the caller never opened
CallerFd == CHOOSE f \in Fds : \A g \in Fds : f <= g
StaleFd == CHOOSE f \in Fds : \A g \in Fds : f >= g

\* the spans a caller passes: 1, 2, 1, 2, ... cut at every length up to MaxData
Pattern(n) == [i \in 1 .. n |-> IF i % 2 = 1 THEN 1 ELSE 2]
Data == {Pattern(n) : n \in 0 .. MaxData}

Zeros(n) == [i \in 1 .. n |-> 0]

VARIABLES
    disk,      \* the file's bytes; Len(disk) is its on-disk length
    fds,       \* descriptor table: fd -> TRUE when open
    vm,        \* live mappings: base address -> length, 0 when unmapped
    proc,      \* "run", or how the process ended: "crashed", "hung"
    writer,    \* the mmap_writer object (mmap_writer.hpp)
    reader,    \* the mmap_reader object (mmap_reader.hpp)
    last,      \* the last call made and how it ended
    written,   \* pure: only write, flush and shrink_to_fit were called on the
               \* writer; fresh: it was built with truncate; bytes: what the file
               \* held when it was built without truncate, then what write() was
               \* handed, in order; flushed: flush() returned after the last write
    ret,       \* what the last reader call returned
    mfile,     \* the mapped_file object (mmap_file.hpp)
    mdst,      \* a second mapped_file, the other side of a move
    dst,       \* a second mmap_reader, the other side of a move
    own,       \* for each of the two readers: it is open on a descriptor that
               \* open_file got for it (or for the reader it was moved from)
    teardown   \* closes: how many close() / unmap() calls in a row the same
               \* object has now taken (2 stands for two or more); was_open:
               \* the first of them found it open; issued: the system calls
               \* the last of them made

vars ==
    <<disk, fds, vm, proc, writer, reader, last, written, ret, mfile, mdst, dst, own,
      teardown>>

\* ------------------------------------------------------------- kernel
\* ::open returns the lowest descriptor not in use
FreeFds(t) == {f \in Fds : ~t[f]}
LowestFree(t) == CHOOSE f \in FreeFds(t) : \A g \in FreeFds(t) : f <= g

\* fstat(fd) succeeds on an open descriptor (EBADF otherwise)
fstat_ok(t, fd) == fd \in Fds /\ t[fd]

\* the file's bytes after ftruncate to n: cut, or extended with zero bytes
Ftruncated(d, n) == IF n <= Len(d) THEN SubSeq(d, 1, n) ELSE d \o Zeros(n - Len(d))

\* ftruncate(fd, static_cast<off_t>(n)) succeeds: an open descriptor, a length
\* that is not negative as an off_t and that the file system grants
ftruncate_ok(t, fd, n) == fd \in Fds /\ t[fd] /\ n <= OffMax /\ n <= MaxFileLen

\* mmap(nullptr, len, ..., fd, 0) can succeed: EINVAL for len = 0, EBADF for a
\* bad descriptor; the kernel places the mapping at the lowest free address
FreeAddrs(v) == {a \in Addrs : v[a] = 0}
LowestAddr(v) == CHOOSE a \in FreeAddrs(v) : \A b \in FreeAddrs(v) : a <= b
mmap_ok(t, v, fd, len) == len > 0 /\ fd \in Fds /\ t[fd] /\ FreeAddrs(v) # {}

\* mremap(old, old_size, new_size, MREMAP_MAYMOVE) can succeed: EINVAL for
\* new_size = 0, EFAULT when [old, old + old_size) is not a mapping
mremap_ok(v, old, old_size, new_size) ==
    old \in Addrs /\ v[old] > 0 /\ v[old] = old_size /\ new_size > 0

\* where mremap may leave the mapping: in place, or, when it grows, moved to a
\* free address (MREMAP_MAYMOVE); a mapping that shrinks stays where it is
mremap_targets(v, old, new_size) ==
    {old} \cup (IF new_size > v[old] /\ FreeAddrs(v) # {} THEN {LowestAddr(v)} ELSE {})

\* the mapping table after a successful mremap to address a
Remapped(v, old, a, new_size) == [[v EXCEPT ![old] = 0] EXCEPT ![a] = new_size]

\* munmap(addr, len): EINVAL for len = 0; releases the mapping at addr
Munmapped(v, addr, len) ==
    IF addr \in Addrs /\ len > 0 /\ v[addr] > 0 /\ len >= v[addr]
    THEN [v EXCEPT ![addr] = 0] ELSE v

\* ::close(fd): closes an open descriptor (EBADF otherwise)
Closed(t, fd) == IF fd \in Fds /\ t[fd] THEN [t EXCEPT ![fd] = FALSE] ELSE t

\* a store (load) of n bytes at ptr + off stays inside a live mapping based at
\* ptr and inside the file; outside the mapping it is a wild access, inside the
\* mapping but past the end of the file it raises SIGBUS
access_ok(v, d, ptr, off, n) ==
    n = 0 \/ (ptr \in Addrs /\ v[ptr] > 0 /\ off + n <= v[ptr] /\ off + n <= Len(d))

\* the file after the bytes of data were stored at offsets off .. off+|data|-1
Stored(d, off, data) ==
    [i \in 1 .. Len(d) |-> IF i > off /\ i <= off + Len(data) THEN data[i - off] ELSE d[i]]

\* the bytes seen through a mapping based at ptr, offsets [from, to)
Mapped(v, d, ptr, from, to) ==
    IF access_ok(v, d, ptr, from, to - from) /\ from <= to
    THEN SubSeq(d, from + 1, to) ELSE <<-1>>

\* ------------------------------------------------------------- writer
\* no mmap_writer object; the fields of an object under construction hold
\* whatever the memory held until init assigns them
NoWriter ==
    [state |-> "none", file_size |-> 0, write_pos |-> 0, max_write_pos |-> 0,
     expand_size |-> DefaultExpand, fd |-> NoFd, should_close |-> FALSE,
     mapped_ptr |-> nullptr]

\* what a call leaves behind: how it ended and the world after it
Outcome(res, w, d, t, v, moved) ==
    [res |-> res, writer |-> w, disk |-> d, fds |-> t, vm |-> v, moved |-> moved]

\* the record of a call in `last`
Call(op, res, moved) == [op |-> op, res |-> res, moved |-> moved]

\* a ~File that closes the descriptor whoever opened it
File_dtor_closes_always(t, d, fd, should_close, max_write_pos, file_size) ==
    [disk |-> IF max_write_pos < file_size /\ ftruncate_ok(t, fd, max_write_pos)
              THEN Ftruncated(d, max_write_pos) ELSE d,
     fds  |-> Closed(t, fd)]

\* File::~File: cut the file to max_write_pos when that is below file_size,
\* close the descriptor when the File opened it; failures only print
File_dtor(t, d, fd, should_close, max_write_pos, file_size) ==
    [disk |-> IF max_write_pos < file_size /\ ftruncate_ok(t, fd, max_write_pos)
              THEN Ftruncated(d, max_write_pos) ELSE d,
     fds  |-> IF should_close THEN Closed(t, fd) ELSE t]

\* MmapData::~MmapData: munmap(mapped_ptr, writer->file_size) unless null
MmapData_dtor(v, mapped_ptr, file_size) ==
    IF mapped_ptr # nullptr THEN Munmapped(v, mapped_ptr, file_size) ELSE v

\* the loop of expand: add expand_size (in size_t) until required_size is
\* reached; -1 when the loop has run through every value it can take
RECURSIVE expand_loop(_, _, _, _)
expand_loop(new_file_size, required_size, expand_size, fuel) ==
    IF new_file_size >= required_size THEN new_file_size
    ELSE IF fuel = 0 THEN -1
    ELSE expand_loop((new_file_size + expand_size) % SizeMod, required_size,
                     expand_size, fuel - 1)

\* MmapData::remap(new_size) after the file was given length new_size (d2):
\* mremap fails (ENOMEM when it must grow, EINVAL for new_size = 0) and throws
\* with mapped_ptr as it was, or succeeds and mapped_ptr follows the mapping
remap(w, d2, t, v, new_size) ==
    (IF new_size > w.file_size \/ ~mremap_ok(v, w.mapped_ptr, w.file_size, new_size)
     THEN {Outcome("throw", w, d2, t, v, FALSE)} ELSE {})
    \cup
    (IF mremap_ok(v, w.mapped_ptr, w.file_size, new_size)
     THEN {Outcome("ok", [w EXCEPT !.mapped_ptr = a], d2, t,
                   Remapped(v, w.mapped_ptr, a, new_size), a # w.mapped_ptr)
             : a \in mremap_targets(v, w.mapped_ptr, new_size)}
     ELSE {})

\* File::resize(new_size) then MmapData::remap(new_size): the two steps that
\* expand and shrink_to_fit share, file_size being assigned after both
resize_remap(w, d, t, v, new_size) ==
    IF ~ftruncate_ok(t, w.fd, new_size)
    THEN {Outcome("throw", w, d, t, v, FALSE)}
    ELSE {IF o.res = "ok"
          THEN [o EXCEPT !.writer = [o.writer EXCEPT !.file_size = new_size]]
          ELSE o
            : o \in remap(w, Ftruncated(d, new_size), t, v, new_size)}

\* expand(required_size) growing the file to required_size itself instead of
\* by whole steps of expand_size
expand_to_required(w, d, t, v, required_size) ==
    IF w.expand_size = 0
    THEN {Outcome("throw", w, d, t, v, FALSE)}
    ELSE resize_remap(w, d, t, v, required_size)

\* mmap_writer::expand(required_size)
expand(w, d, t, v, required_size) ==
    IF w.expand_size = 0
    THEN {Outcome("throw", w, d, t, v, FALSE)}
    ELSE LET new_file_size ==
                 expand_loop(w.file_size, required_size, w.expand_size, SizeMod)
         IN  IF new_file_size = -1
             THEN {Outcome("hang", w, d, t, v, FALSE)}
             ELSE resize_remap(w, d, t, v, new_file_size)

\* `if (needed > file_size) expand(needed)`: the guard write, pwrite and seek
\* put before their body
grown(w, d, t, v, needed) ==
    IF needed > w.file_size THEN expand(w, d, t, v, needed)
    ELSE {Outcome("ok", w, d, t, v, FALSE)}

\* init with line 190 as `file_size = std::max(old_file_size, reserved_size)`
init_sizes_to_max(w, d, t, v, truncate, reserved_size) ==
    IF ~fstat_ok(t, w.fd)
    THEN {Outcome("throw", w, d, t, v, FALSE)}
    ELSE LET old_file_size == Len(d)
             file_size == IF old_file_size = 0
                          THEN (IF reserved_size > 0 THEN reserved_size ELSE DefaultExpand)
                          ELSE Max(old_file_size, reserved_size)
             w1 == [w EXCEPT !.file_size = file_size]
             d2 == Ftruncated(d, file_size)
             pos == IF truncate THEN 0 ELSE old_file_size
         IN  IF ~ftruncate_ok(t, w.fd, file_size)
             THEN {Outcome("throw", w1, d, t, v, FALSE)}
             ELSE {Outcome("throw", w1, d2, t, v, FALSE)}
                  \cup
                  (IF mmap_ok(t, v, w.fd, file_size)
                   THEN {Outcome("ok",
                                 [w1 EXCEPT !.state = "open",
                                            !.mapped_ptr = LowestAddr(v),
                                            !.write_pos = pos,
                                            !.max_write_pos = pos],
                                 d2, t, [v EXCEPT ![LowestAddr(v)] = file_size], FALSE)}
                   ELSE {})

\* mmap_writer::init(truncate, reserved_size), the File holding descriptor w.fd.
\* A field init has not assigned yet is -1 (it holds what the memory held).
init(w, d, t, v, truncate, reserved_size) ==
    IF ~fstat_ok(t, w.fd)
    THEN {Outcome("throw", w, d, t, v, FALSE)}
    ELSE LET old_file_size == Len(d)
             file_size == IF old_file_size = 0
                          THEN (IF reserved_size > 0 THEN reserved_size ELSE DefaultExpand)
                          ELSE (old_file_size + reserved_size) % SizeMod
             w1 == [w EXCEPT !.file_size = file_size]
             d2 == Ftruncated(d, file_size)
             pos == IF truncate THEN 0 ELSE old_file_size
         IN  IF ~ftruncate_ok(t, w.fd, file_size)
             THEN {Outcome("throw", w1, d, t, v, FALSE)}
             ELSE {Outcome("throw", w1, d2, t, v, FALSE)}
                  \cup
                  (IF mmap_ok(t, v, w.fd, file_size)
                   THEN {Outcome("ok",
                                 [w1 EXCEPT !.state = "open",
                                            !.mapped_ptr = LowestAddr(v),
                                            !.write_pos = pos,
                                            !.max_write_pos = pos],
                                 d2, t, [v EXCEPT ![LowestAddr(v)] = file_size], FALSE)}
                   ELSE {})

\* the values an unassigned size_t field may hold
Garbage(x) == IF x = -1 THEN SizeT ELSE {x}

\* a writer whose constructor threw: there is no object
Failed == [NoWriter EXCEPT !.state = "failed"]

\* a constructor whose init threw: ~MmapData, then ~File, run on the members
\* with the fields as init left them; no object remains
unwound(o) ==
    {Outcome("throw", Failed,
             File_dtor(o.fds, o.disk, o.writer.fd, o.writer.should_close, m, s).disk,
             File_dtor(o.fds, o.disk, o.writer.fd, o.writer.should_close, m, s).fds,
             MmapData_dtor(o.vm, o.writer.mapped_ptr, s), FALSE)
       : m \in Garbage(o.writer.max_write_pos), s \in Garbage(o.writer.file_size)}

\* the members as the constructors leave them before init runs
Members(fd, should_close) ==
    [NoWriter EXCEPT !.state = "init", !.fd = fd, !.should_close = should_close,
                     !.file_size = -1, !.write_pos = -1, !.max_write_pos = -1]

constructed(os) == UNION {IF o.res = "ok" THEN {o} ELSE unwound(o) : o \in os}

\* mmap_writer(filename, truncate, reserved_size): File::open (O_TRUNC empties
\* the file) may fail, and then nothing was built
mmap_writer_path(d, t, v, truncate, reserved_size) ==
    {Outcome("throw", Failed, d, t, v, FALSE)}
    \cup
    (IF FreeFds(t) = {} THEN {}
     ELSE constructed(init(Members(LowestFree(t), TRUE),
                           IF truncate THEN <<>> ELSE d,
                           [t EXCEPT ![LowestFree(t)] = TRUE],
                           v, truncate, reserved_size)))

\* mmap_writer(fd, truncate, reserved_size): File(writer, fd) rejects fd < 0
mmap_writer_fd(d, t, v, fd, truncate, reserved_size) ==
    IF fd < 0 THEN {Outcome("throw", Failed, d, t, v, FALSE)}
    ELSE constructed(init(Members(fd, FALSE), d, t, v, truncate, reserved_size))

\* ~mmap_writer: the members go in reverse order, mmap_data then file
destroyed(w, d, t, v) ==
    LET f == File_dtor(t, d, w.fd, w.should_close, w.max_write_pos, w.file_size)
    IN  Outcome("ok", [w EXCEPT !.state = "gone"], f.disk, f.fds,
                MmapData_dtor(v, w.mapped_ptr, w.file_size), FALSE)

\* a copy that stores nothing
copied_nothing(o, data, offset) ==
    IF access_ok(o.vm, o.disk, o.writer.mapped_ptr, offset, Len(data))
    THEN o
    ELSE [o EXCEPT !.res = "crash"]

\* std::ranges::copy(data, mapped_ptr + offset) for offset + |data| that did not
\* wrap: the store, or SIGBUS / SIGSEGV when it leaves the mapping or the file
copied(o, data, offset) ==
    IF access_ok(o.vm, o.disk, o.writer.mapped_ptr, offset, Len(data))
    THEN [o EXCEPT !.disk = Stored(o.disk, offset, data)]
    ELSE [o EXCEPT !.res = "crash"]

\* write(data) without line 298: high_water does not follow the cursor
write_keeps_high_water(w, d, t, v, data) ==
    {IF g.res # "ok" THEN g
     ELSE LET c == copied(g, data, w.write_pos)
              pos == (w.write_pos + Len(data)) % SizeMod
          IN  IF c.res # "ok" THEN c
              ELSE [c EXCEPT !.writer.write_pos = pos]
       : g \in grown(w, d, t, v, (w.write_pos + Len(data)) % SizeMod)}

\* mmap_writer::write(data)
write(w, d, t, v, data) ==
    {IF g.res # "ok" THEN g
     ELSE LET c == copied(g, data, w.write_pos)
              pos == (w.write_pos + Len(data)) % SizeMod
          IN  IF c.res # "ok" THEN c
              ELSE [c EXCEPT !.writer.write_pos = pos,
                             !.writer.max_write_pos = Max(w.max_write_pos, pos)]
       : g \in grown(w, d, t, v, (w.write_pos + Len(data)) % SizeMod)}

\* the copy of pwrite when offset + |data| wrapped: mapped_ptr + offset lies
\* SizeMod - offset bytes below the mapping, so the head of data goes to memory
\* that is not the mapping's (a fault, or a silent store to foreign memory) and
\* the tail lands on the first bytes of the mapping
wild_copied(o, data, offset) ==
    LET below == SizeMod - offset
        tail == SubSeq(data, below + 1, Len(data))
    IN  {[o EXCEPT !.res = "crash"]}
        \cup
        (IF access_ok(o.vm, o.disk, o.writer.mapped_ptr, 0, Len(tail))
         THEN {[o EXCEPT !.disk = Stored(o.disk, 0, tail)]} ELSE {})

\* mmap_writer::pwrite(data, offset)
pwrite(w, d, t, v, data, offset) ==
    LET end == (offset + Len(data)) % SizeMod
        wrapped == offset + Len(data) >= SizeMod
    IN  UNION
        {IF g.res # "ok" THEN {g}
         ELSE {IF c.res # "ok" THEN c
               ELSE [c EXCEPT !.writer.max_write_pos = Max(w.max_write_pos, end)]
                 : c \in (IF wrapped THEN wild_copied(g, data, offset)
                          ELSE {copied(g, data, offset)})}
           : g \in grown(w, d, t, v, end)}

\* seek(pos) with line 254 as `max_write_pos = write_pos`
seek_drags_high_water(w, d, t, v, pos) ==
    {IF g.res # "ok" THEN g
     ELSE [g EXCEPT !.writer.write_pos = pos,
                    !.writer.max_write_pos = pos]
       : g \in grown(w, d, t, v, pos)}

\* mmap_writer::seek(pos)
seek(w, d, t, v, pos) ==
    {IF g.res # "ok" THEN g
     ELSE [g EXCEPT !.writer.write_pos = pos,
                    !.writer.max_write_pos = Max(w.max_write_pos, pos)]
       : g \in grown(w, d, t, v, pos)}

\* the destination with `end` measured from write_pos, as `cur` is
seek_target_end_as_cur(w, off, dir) ==
    CASE dir = "beg" -> IF off < 0 THEN 0 ELSE off
      [] dir \in {"cur", "end"} ->
                        IF off < 0
                        THEN (IF -off > w.write_pos THEN 0 ELSE w.write_pos - (-off))
                        ELSE (w.write_pos + off) % SizeMod

\* the destination mmap_writer::seek(off, dir) computes
seek_target(w, off, dir) ==
    CASE dir = "beg" -> IF off < 0 THEN 0 ELSE off
      [] dir = "cur" -> IF off < 0
                        THEN (IF -off > w.write_pos THEN 0 ELSE w.write_pos - (-off))
                        ELSE (w.write_pos + off) % SizeMod
      [] dir = "end" -> IF off < 0
                        THEN (IF -off > w.max_write_pos THEN 0
                              ELSE w.max_write_pos - (-off))
                        ELSE (w.max_write_pos + off) % SizeMod

\* mmap_writer::seek(off, dir)
seek_dir(w, d, t, v, off, dir) == seek(w, d, t, v, seek_target(w, off, dir))

\* mmap_writer::shrink_to_fit
shrink_to_fit(w, d, t, v) ==
    IF w.max_write_pos < w.file_size
    THEN resize_remap(w, d, t, v, w.max_write_pos)
    ELSE {Outcome("ok", w, d, t, v, FALSE)}

\* mmap_writer::flush(async): msync changes nothing the model holds; it
\* returns, or fails (EIO) and flush throws
flush(w, d, t, v) ==
    {Outcome("ok", w, d, t, v, FALSE), Outcome("throw", w, d, t, v, FALSE)}

\* set_expand_size that stores what it is given
set_expand_size_as_given(w, new_expand_size) ==
    [w EXCEPT !.expand_size = new_expand_size]

\* mmap_writer::set_expand_size(new_expand_size)
set_expand_size(w, new_expand_size) ==
    [w EXCEPT !.expand_size = IF new_expand_size > 0 THEN new_expand_size
                              ELSE DefaultExpand]

\* ------------------------------------------------------------- reader
\* a default-constructed (closed) mmap_reader
NoReader == [mapped_ptr |-> nullptr, map_size |-> 0, fd |-> NoFd, current_offset |-> 0]

\* what a reader call returns: nothing (void, nullopt), or a count / a view
NoRet == [some |-> FALSE, n |-> 0, bytes |-> <<>>]
Ret(n, bytes) == [some |-> TRUE, n |-> n, bytes |-> bytes]

\* what a reader call leaves behind
ROutcome(res, r, t, v, rv) == [res |-> res, reader |-> r, fds |-> t, vm |-> v, ret |-> rv]

is_open(r) == r.mapped_ptr # nullptr

\* a close() that does not ask is_open() first
reader_close_unguarded(r, t, v) ==
    [res |-> "ok", reader |-> NoReader, fds |-> Closed(t, r.fd),
     vm |-> Munmapped(v, r.mapped_ptr, r.map_size), ret |-> NoRet,
     issued |-> {"munmap", "close"}]

\* close(), which ~mmap_reader also runs: unmaps and closes the descriptor
\* the reader holds, whoever opened it; nothing on a reader that is not open
reader_close(r, t, v) ==
    IF is_open(r)
    THEN [res |-> "ok", reader |-> NoReader, fds |-> Closed(t, r.fd),
          vm |-> Munmapped(v, r.mapped_ptr, r.map_size), ret |-> NoRet,
          issued |-> {"munmap", "close"}]
    ELSE [res |-> "ok", reader |-> r, fds |-> t, vm |-> v, ret |-> NoRet, issued |-> {}]

\* a move assignment that takes the source's fields without close() first
reader_move_assign_no_close(this, that, t, v) ==
    [this |-> that, that |-> NoReader, fds |-> t, vm |-> v]

\* operator=(mmap_reader&& that) with this != &that: close(), then every
\* field of that is taken and that is left with the default values
reader_move_assign(this, that, t, v) ==
    LET c == reader_close(this, t, v) IN
    [this |-> that, that |-> NoReader, fds |-> c.fds, vm |-> c.vm]

\* mmap_reader(mmap_reader&& that): the new object takes every field of that
reader_move_ctor(that) == [this |-> that, that |-> NoReader]

\* memory_map() on a reader whose fd was just assigned
memory_map(r, d, t, v) ==
    IF ~fstat_ok(t, r.fd)
    THEN {ROutcome("throw", r, Closed(t, r.fd), v, NoRet)}
    ELSE LET r1 == [r EXCEPT !.map_size = Len(d)] IN
         {ROutcome("throw", r1, Closed(t, r.fd), v, NoRet)}
         \cup (IF mmap_ok(t, v, r.fd, r1.map_size)
               THEN {ROutcome("ok", [r1 EXCEPT !.mapped_ptr = LowestAddr(v)], t,
                              [v EXCEPT ![LowestAddr(v)] = r1.map_size], NoRet)}
               ELSE {})

\* open(path): close(), open_file(path), memory_map()
reader_open_path(r, d, t, v) ==
    LET c == reader_close(r, t, v) IN
    {ROutcome("throw", c.reader, c.fds, c.vm, NoRet)}
    \cup (IF FreeFds(c.fds) = {} THEN {}
          ELSE LET fd == LowestFree(c.fds) IN
               memory_map([c.reader EXCEPT !.fd = fd], d, [c.fds EXCEPT ![fd] = TRUE], c.vm))

\* open(new_fd): close(), fd = new_fd, memory_map()
reader_open_fd(r, d, t, v, new_fd) ==
    LET c == reader_close(r, t, v) IN
    memory_map([c.reader EXCEPT !.fd = new_fd], d, c.fds, c.vm)

\* a load of n bytes at mapped_ptr + off: the bytes, or <<-1>> when it faults
Loaded(r, d, v, off, n) == Mapped(v, d, r.mapped_ptr, off, off + n)

\* seek(pos)
reader_seek(r, pos) == [r EXCEPT !.current_offset = Min(pos, r.map_size)]

\* seek(off, dir)
reader_seek_dir(r, off, dir) ==
    [r EXCEPT !.current_offset =
        CASE dir = "beg" -> IF off < 0 THEN 0 ELSE Min(off, r.map_size)
          [] dir = "cur" -> IF off < 0
                            THEN (IF -off > r.current_offset THEN 0
                                  ELSE r.current_offset - (-off))
                            ELSE Min((r.current_offset + off) % SizeMod, r.map_size)
          [] dir = "end" -> IF off < 0
                            THEN (IF -off > r.map_size THEN 0 ELSE r.map_size - (-off))
                            ELSE r.map_size]

\* read(buf) with buf.size() = n; map_size - current_offset is unsigned, so
\* past the end to_read is n and memcpy loads beyond the mapped bytes: a
\* fault, or the zero fill of the mapping's last page
reader_read(r, d, t, v, n) ==
    LET to_read == Min(n, (r.map_size - r.current_offset) % SizeMod)
        got == Loaded(r, d, v, r.current_offset, to_read)
        r1 == [r EXCEPT !.current_offset = (@ + to_read) % SizeMod]
    IN IF got # <<-1>> THEN {ROutcome("ok", r1, t, v, Ret(to_read, got))}
       ELSE {ROutcome("crash", r, t, v, NoRet)}
            \cup (IF is_open(r) /\ r.current_offset >= r.map_size
                  THEN {ROutcome("ok", r1, t, v, Ret(to_read, Zeros(to_read)))} ELSE {})

\* pread(buf, offset) with buf.size() = n
reader_pread(r, d, t, v, n, offset) ==
    IF offset >= r.map_size THEN ROutcome("ok", r, t, v, Ret(0, <<>>))
    ELSE LET to_read == Min(n, r.map_size - offset)
             got == Loaded(r, d, v, offset, to_read)
         IN IF got = <<-1>> THEN ROutcome("crash", r, t, v, NoRet)
            ELSE ROutcome("ok", r, t, v, Ret(to_read, got))

\* the scan loop of next_line and getline: where it stops, whether it saw the
\* delimiter, and whether every byte it looked at could be loaded
scan(r, d, v, delimiter) ==
    LET hits == {i \in r.current_offset .. r.map_size - 1 :
                    Loaded(r, d, v, i, 1) = <<delimiter>>}
        cur == IF hits = {} THEN r.map_size
               ELSE 1 + (CHOOSE i \in hits : \A j \in hits : i <= j)
    IN [cur |-> cur, found_delimiter |-> IF hits = {} THEN 0 ELSE 1,
        ok |-> \A i \in r.current_offset .. cur - 1 : Loaded(r, d, v, i, 1) # <<-1>>]

\* next_line(delimiter): the line view and the cursor after it
next_line(r, d, t, v, delimiter) ==
    LET s == scan(r, d, v, delimiter)
        len == (s.cur - r.current_offset - s.found_delimiter) % SizeMod
    IN IF ~s.ok THEN ROutcome("crash", r, t, v, NoRet)
       ELSE ROutcome("ok", [r EXCEPT !.current_offset = s.cur], t, v,
                     Ret(len, Loaded(r, d, v, r.current_offset, len)))

\* getline(delimiter): nullopt at end of file, else as next_line
reader_getline(r, d, t, v, delimiter) ==
    IF r.current_offset >= r.map_size THEN ROutcome("ok", r, t, v, NoRet)
    ELSE next_line(r, d, t, v, delimiter)

\* next_char(): mapped_ptr[current_offset++] with no end-of-file test; a load
\* past the last byte faults or yields the zero fill of the mapping's last
\* page, which goes on for as many bytes as the page has left
next_char(r, d, t, v) ==
    LET got == Loaded(r, d, v, r.current_offset, 1)
        r1 == [r EXCEPT !.current_offset = (@ + 1) % SizeMod]
    IN IF got # <<-1>> THEN {ROutcome("ok", r1, t, v, Ret(1, got))}
       ELSE {ROutcome("crash", r, t, v, NoRet)}
            \cup (IF is_open(r) /\ r.current_offset >= r.map_size
                  THEN {ROutcome("ok", r1, t, v, Ret(1, <<0>>))} ELSE {})

\* view(offset, len): a borrowed range, no byte is loaded; the result holds
\* its length and the bytes a caller sees through it (<<-1>> when the range
\* is not inside a live mapping)
reader_view(r, d, t, v, offset, len) ==
    IF offset >= r.map_size THEN ROutcome("ok", r, t, v, Ret(0, <<>>))
    ELSE LET available == r.map_size - offset
             actual_len == Min(len, available)
         IN ROutcome("ok", r, t, v, Ret(actual_len, Loaded(r, d, v, offset, actual_len)))

\* str(offset, len): the same range copied into a std::string
reader_str(r, d, t, v, offset, len) ==
    IF offset >= r.map_size THEN ROutcome("ok", r, t, v, Ret(0, <<>>))
    ELSE LET available == r.map_size - offset
             actual_len == Min(len, available)
             got == Loaded(r, d, v, offset, actual_len)
         IN IF got = <<-1>> THEN ROutcome("crash", r, t, v, NoRet)
            ELSE ROutcome("ok", r, t, v, Ret(actual_len, got))

\* eof(): the test operator!= of both iterators makes before every pass
eof(r) == r.current_offset >= r.map_size

\* for (auto line : lines(delimiter)): until eof(), operator* (next_line);
\* operator++ does nothing.  n lines were yielded so far and acc holds each
\* of them followed by the delimiter
RECURSIVE lines_loop(_, _, _, _, _, _, _)
lines_loop(r, d, t, v, delimiter, n, acc) ==
    IF eof(r) THEN ROutcome("ok", r, t, v, Ret(n, acc))
    ELSE LET o == next_line(r, d, t, v, delimiter) IN
         IF o.res # "ok" THEN ROutcome(o.res, r, t, v, NoRet)
         ELSE lines_loop(o.reader, d, t, v, delimiter, n + 1,
                         acc \o o.ret.bytes \o <<delimiter>>)

\* for (char c : chars()): until eof(), operator* (next_char); acc holds the
\* bytes yielded so far
RECURSIVE chars_loop(_, _, _, _, _)
chars_loop(r, d, t, v, acc) ==
    IF eof(r) THEN {ROutcome("ok", r, t, v, Ret(Len(acc), acc))}
    ELSE UNION {IF o.res # "ok" THEN {ROutcome(o.res, r, t, v, NoRet)}
                ELSE chars_loop(o.reader, d, t, v, acc \o o.ret.bytes) :
                o \in next_char(r, d, t, v)}

\* getchar(): nullopt at end of file, else the byte under the cursor
reader_getchar(r, d, t, v) ==
    IF r.current_offset >= r.map_size THEN ROutcome("ok", r, t, v, NoRet)
    ELSE LET got == Loaded(r, d, v, r.current_offset, 1) IN
         IF got = <<-1>> THEN ROutcome("crash", r, t, v, NoRet)
         ELSE ROutcome("ok", [r EXCEPT !.current_offset = @ + 1], t, v, Ret(1, got))


\* ------------------------------------------------------------- mapped_file
\* no mapped_file object; a default-constructed one has these fields
NoMappedFile ==
    [state |-> "none", addr_ |-> nullptr, len_ |-> 0, total_len_ |-> 0,
     fd_ |-> NoFd, is_internal_fd |-> TRUE]

\* what a mapped_file constructor leaves behind
MOutcome(res, m, t, v) == [res |-> res, mfile |-> m, fds |-> t, vm |-> v]

\* mapped_file(path): open_file(path, true), query_file_size, mmap; a failed
\* mmap closes the descriptor; a constructor that throws leaves no object
mapped_file_path(d, t, v) ==
    {MOutcome("throw", [NoMappedFile EXCEPT !.state = "failed"], t, v)}
    \cup (IF FreeFds(t) = {} THEN {}
          ELSE LET fd == LowestFree(t)
                   t1 == [t EXCEPT ![fd] = TRUE]
                   len == Len(d)
               IN  IF mmap_ok(t1, v, fd, len)
                   THEN {MOutcome("ok",
                                  [NoMappedFile EXCEPT !.state = "live", !.addr_ = LowestAddr(v),
                                                       !.len_ = len, !.fd_ = fd],
                                  t1, [v EXCEPT ![LowestAddr(v)] = len])}
                   ELSE {})

\* mapped_file(map_fd): the caller's descriptor, is_internal_fd = false; a
\* failed fstat or mmap closes map_fd before the constructor throws
mapped_file_fd(d, t, v, map_fd) ==
    {MOutcome("throw", [NoMappedFile EXCEPT !.state = "failed"], Closed(t, map_fd), v)}
    \cup (IF fstat_ok(t, map_fd) /\ mmap_ok(t, v, map_fd, Len(d))
          THEN {MOutcome("ok",
                         [NoMappedFile EXCEPT !.state = "live", !.addr_ = LowestAddr(v),
                                              !.len_ = Len(d), !.fd_ = map_fd,
                                              !.is_internal_fd = FALSE],
                         t, [v EXCEPT ![LowestAddr(v)] = Len(d)])}
          ELSE {})

\* unmap(), which ~mapped_file also runs: nothing when fd_ is -1; else munmap
\* when mapped, close when the object opened the descriptor, fields reset
unmap(m, t, v) ==
    IF m.fd_ = NoFd
    THEN [mfile |-> m, fds |-> t, vm |-> v, issued |-> {}]
    ELSE [mfile |-> [m EXCEPT !.addr_ = nullptr, !.len_ = 0, !.total_len_ = 0, !.fd_ = NoFd],
          fds |-> IF m.is_internal_fd THEN Closed(t, m.fd_) ELSE t,
          vm |-> IF m.addr_ # nullptr THEN Munmapped(v, m.addr_, m.len_) ELSE v,
          issued |-> (IF m.addr_ # nullptr THEN {"munmap"} ELSE {})
                     \cup (IF m.is_internal_fd THEN {"close"} ELSE {})]

\* mapped_file(mapped_file&& other): addr_, len_ and fd_ are taken from other;
\* total_len_ and is_internal_fd are not named and get their initialisers
mapped_file_move_ctor(other) ==
    [this |-> [NoMappedFile EXCEPT !.state = "live", !.addr_ = other.addr_,
                                   !.len_ = other.len_, !.fd_ = other.fd_],
     that |-> [other EXCEPT !.addr_ = nullptr, !.len_ = 0, !.fd_ = NoFd]]

\* operator=(mapped_file&& other): unmap(), then addr_, len_ and fd_ are taken
\* from other; is_internal_fd stays what this object had
mapped_file_move_assign(this, other, t, v) ==
    LET u == unmap(this, t, v) IN
    [this |-> [u.mfile EXCEPT !.addr_ = other.addr_, !.len_ = other.len_,
                              !.fd_ = other.fd_],
     that |-> [other EXCEPT !.addr_ = nullptr, !.len_ = 0, !.fd_ = NoFd],
     fds |-> u.fds, vm |-> u.vm]

\* ------------------------------------------------------------- mmap_writer.cpp
\* mmap_writer(filename, truncate) of the older writer: open(), which is
\* close() on the fresh object and open_file().  The descriptor is O_WRONLY
\* and a file mapping needs one open for reading, so mmap fails (EACCES) and
\* the constructor throws with the file already resized and the descriptor
\* still open; ~mmap_writer does not run for an object that was never built
cpp_open_file(d, t, truncate) ==
    {[res |-> "throw", disk |-> d, fds |-> t]}
    \cup (IF FreeFds(t) = {} THEN {}
          ELSE LET fd == LowestFree(t)
                   t1 == [t EXCEPT ![fd] = TRUE]
                   d1 == IF truncate THEN <<>> ELSE d
                   capacity == (Len(d1) + DefaultExpand) % SizeMod
               IN  {[res |-> "throw",
                     disk |-> IF ftruncate_ok(t1, fd, capacity)
                              THEN Ftruncated(d1, capacity) ELSE d1,
                     fds |-> t1]})

\* ------------------------------------------------------------- inputs
\* reserved_size, new_expand_size, pos / offset (size_t) and off (ptrdiff_t)
Reserved == {0, 1, SizeMax}
ExpandSizes == {0, 2}
Offsets == {0, 1, MaxFileLen, MaxFileLen + 1, SizeMax}
SeekOffs == {-OffMax, -1, 1, 3}
SeekDirs == {"beg", "cur", "end"}
FdArgs == {CallerFd, StaleFd, NoFd}
\* what the file holds before the first writer or reader is built
InitFiles == {<<>>, <<2, 1>>}

\* buf.size() of read and pread, and the files a reader is pointed at
BufSizes == 0 .. MaxData
Lens == BufSizes \cup {SizeMax}
ReaderFiles == UNION {[1 .. n -> Bytes] : n \in 0 .. MaxFileLen}

NoCall == Call("none", "ok", FALSE)
NotPure == [pure |-> FALSE, fresh |-> FALSE, bytes |-> <<>>, flushed |-> FALSE]
NoTeardown == [closes |-> 0, was_open |-> FALSE, issued |-> {}]
NoDst == [live |-> FALSE, r |-> NoReader]
NoOwn == [reader |-> FALSE, dst |-> FALSE]

Init ==
    /\ disk \in InitFiles
    /\ fds = [f \in Fds |-> f = CallerFd]
    /\ vm = [a \in Addrs |-> 0]
    /\ proc = "run"
    /\ writer = NoWriter
    /\ reader = NoReader
    /\ last = NoCall
    /\ written = NotPure
    /\ ret = NoRet
    /\ mfile = NoMappedFile
    /\ mdst = NoMappedFile
    /\ dst = NoDst
    /\ own = NoOwn
    /\ teardown = NoTeardown

\* the world after a writer call that ended as outcome o
Done(op, o) ==
    /\ writer' = o.writer
    /\ disk' = o.disk
    /\ fds' = o.fds
    /\ vm' = o.vm
    /\ proc' = CASE o.res = "crash" -> "crashed"
                 [] o.res = "hang" -> "hung"
                 [] OTHER -> "run"
    /\ last' = Call(op, o.res, o.moved)
    /\ reader' = reader
    /\ ret' = ret
    /\ mfile' = mfile
    /\ mdst' = mdst
    /\ dst' = dst
    /\ own' = own
    /\ teardown' = NoTeardown

WriterOpen == proc = "run" /\ writer.state = "open"
CanConstruct == proc = "run" /\ writer.state = "none"

\* the history a writer starts with: what the file is to hold if only write()
\* is called from now on (nothing after truncate, else what it held)
Started(truncate, d) ==
    [pure |-> TRUE, fresh |-> truncate, bytes |-> IF truncate THEN <<>> ELSE d,
     flushed |-> FALSE]

\* one call mmap_writer(filename, truncate, reserved_size)
ConstructPathOf(truncate, reserved_size) ==
    /\ CanConstruct
    /\ \E o \in mmap_writer_path(disk, fds, vm, truncate, reserved_size) :
         /\ Done("ctor_path", o)
         /\ written' = IF o.res = "ok" THEN Started(truncate, disk) ELSE NotPure

ConstructPath ==
    \E truncate \in BOOLEAN, reserved_size \in Reserved :
        ConstructPathOf(truncate, reserved_size)

\* one call mmap_writer(fd, truncate, reserved_size)
ConstructFdOf(fd, truncate, reserved_size) ==
    /\ CanConstruct
    /\ \E o \in mmap_writer_fd(disk, fds, vm, fd, truncate, reserved_size) :
         /\ Done("ctor_fd", o)
         /\ written' = IF o.res = "ok" THEN Started(truncate, disk) ELSE NotPure

ConstructFd ==
    \E fd \in FdArgs, truncate \in BOOLEAN, reserved_size \in Reserved :
        ConstructFdOf(fd, truncate, reserved_size)

\* one call write(data)
WriteOf(data) ==
    /\ WriterOpen
    /\ \E o \in write(writer, disk, fds, vm, data) :
         /\ Done("write", o)
         /\ written' = IF written.pure /\ o.res = "ok"
                       THEN [written EXCEPT !.bytes = @ \o data, !.flushed = FALSE]
                       ELSE written

Write == \E data \in Data : WriteOf(data)

\* one call pwrite(data, offset)
PWriteOf(data, offset) ==
    /\ WriterOpen
    /\ \E o \in pwrite(writer, disk, fds, vm, data, offset) :
         /\ Done("pwrite", o)
         /\ written' = IF o.res = "ok" THEN NotPure ELSE written

PWrite == \E data \in Data, offset \in Offsets : PWriteOf(data, offset)

Seek ==
    /\ WriterOpen
    /\ \E pos \in Offsets :
         \E o \in seek(writer, disk, fds, vm, pos) :
            /\ Done("seek", o)
            /\ written' = IF o.res = "ok" THEN NotPure ELSE written

\* one call seek(off, dir)
SeekDirOf(off, dir) ==
    /\ WriterOpen
    /\ \E o \in seek_dir(writer, disk, fds, vm, off, dir) :
         /\ Done("seek_dir", o)
         /\ written' = IF o.res = "ok" THEN NotPure ELSE written

SeekDir == \E off \in SeekOffs, dir \in SeekDirs : SeekDirOf(off, dir)

ShrinkToFit ==
    /\ WriterOpen
    /\ \E o \in shrink_to_fit(writer, disk, fds, vm) :
         /\ Done("shrink_to_fit", o)
         /\ written' = written

Flush ==
    /\ WriterOpen
    /\ \E o \in flush(writer, disk, fds, vm) :
         /\ Done("flush", o)
         /\ written' = IF written.pure /\ o.res = "ok"
                       THEN [written EXCEPT !.flushed = TRUE] ELSE written

\* one call set_expand_size(new_expand_size); the record of the call tells a
\* call with 0 from the others
SetExpandSizeOf(new_expand_size) ==
    /\ WriterOpen
    /\ Done(IF new_expand_size = 0 THEN "set_expand_size_0" ELSE "set_expand_size",
            Outcome("ok", set_expand_size(writer, new_expand_size), disk, fds, vm, FALSE))
    /\ written' = written

SetExpandSize == \E new_expand_size \in ExpandSizes : SetExpandSizeOf(new_expand_size)

Destroy ==
    /\ WriterOpen
    /\ Done("dtor", destroyed(writer, disk, fds, vm))
    /\ written' = written

WriterNext ==
    \/ ConstructPath
    \/ ConstructFd
    \/ Write
    \/ PWrite
    \/ Seek
    \/ SeekDir
    \/ ShrinkToFit
    \/ Flush
    \/ SetExpandSize
    \/ Destroy

Next == WriterNext

Spec == Init /\ [][Next]_vars

\* ------------------------------------------------------ reader actions
\* the world after a reader call that ended as outcome o
ReaderStep(op, o) ==
    /\ reader' = o.reader
    /\ fds' = o.fds
    /\ vm' = o.vm
    /\ ret' = o.ret
    /\ proc' = IF o.res = "crash" THEN "crashed" ELSE "run"
    /\ last' = Call(op, o.res, FALSE)
    /\ own' = [own EXCEPT !.reader = /\ is_open(o.reader)
                                     /\ CASE op = "r_open_path" -> TRUE
                                          [] op = "r_open_fd" -> FALSE
                                          [] OTHER -> @]
    /\ UNCHANGED <<disk, writer, written, mfile, mdst, dst>>

ReaderDone(op, o) == ReaderStep(op, o) /\ teardown' = NoTeardown

\* the run of teardown calls after one more call `op`, made on an object that
\* was open (or not) before it and that made the system calls `issued`
Torn(op, open, issued) ==
    [closes |-> IF last.op = op THEN Min(teardown.closes + 1, 2) ELSE 1,
     was_open |-> IF last.op = op THEN teardown.was_open ELSE open,
     issued |-> issued]

Running == proc = "run"

ReaderOpenPath ==
    /\ Running
    /\ \E o \in reader_open_path(reader, disk, fds, vm) : ReaderDone("r_open_path", o)

ReaderOpenFd ==
    /\ Running
    /\ \E new_fd \in FdArgs :
         \E o \in reader_open_fd(reader, disk, fds, vm, new_fd) : ReaderDone("r_open_fd", o)

\* close(), also what ~mmap_reader runs
ReaderClose ==
    /\ Running
    /\ LET c == reader_close(reader, fds, vm) IN
         /\ ReaderStep("r_close", c)
         /\ teardown' = Torn("r_close", is_open(reader), c.issued)

\* one call seek(pos)
ReaderSeekOf(pos) ==
    /\ Running
    /\ ReaderDone("r_seek", ROutcome("ok", reader_seek(reader, pos), fds, vm, NoRet))

ReaderSeek == \E pos \in Offsets : ReaderSeekOf(pos)

\* one call seek(off, dir)
ReaderSeekDirOf(off, dir) ==
    /\ Running
    /\ ReaderDone("r_seek_dir",
                  ROutcome("ok", reader_seek_dir(reader, off, dir), fds, vm, NoRet))

ReaderSeekDir == \E off \in SeekOffs, dir \in SeekDirs : ReaderSeekDirOf(off, dir)

\* one call read(buf) with buf.size() = n
ReadOf(n) ==
    \E o \in reader_read(reader, disk, fds, vm, n) : ReaderDone("r_read", o)

Read ==
    /\ Running
    /\ \E n \in BufSizes : ReadOf(n)

\* one call pread(buf, offset) with buf.size() = n
PReadOf(n, offset) ==
    ReaderDone("r_pread", reader_pread(reader, disk, fds, vm, n, offset))

PRead ==
    /\ Running
    /\ \E n \in BufSizes, offset \in Offsets : PReadOf(n, offset)

GetLineOf(delimiter) ==
    ReaderDone("r_getline", reader_getline(reader, disk, fds, vm, delimiter))

GetLine ==
    /\ Running
    /\ \E delimiter \in Bytes : GetLineOf(delimiter)

GetChar ==
    /\ Running
    /\ ReaderDone("r_getchar", reader_getchar(reader, disk, fds, vm))

\* operator* of the lines() iterator
LinesDeref ==
    /\ Running
    /\ \E delimiter \in Bytes :
         ReaderDone("r_lines_deref", next_line(reader, disk, fds, vm, delimiter))

\* operator* of the chars() iterator
CharsDeref ==
    /\ Running
    /\ \E o \in next_char(reader, disk, fds, vm) : ReaderDone("r_chars_deref", o)

\* one call view(offset, len) or str(offset, len)
ViewOf(offset, len) ==
    ReaderDone("r_view", reader_view(reader, disk, fds, vm, offset, len))

StrOf(offset, len) ==
    ReaderDone("r_str", reader_str(reader, disk, fds, vm, offset, len))

View ==
    /\ Running
    /\ \E offset \in Offsets, len \in Lens : ViewOf(offset, len)

Str ==
    /\ Running
    /\ \E offset \in Offsets, len \in Lens : StrOf(offset, len)

\* one range-for over lines(delimiter), run to its end
LinesForOf(delimiter) ==
    ReaderDone("r_lines_for", lines_loop(reader, disk, fds, vm, delimiter, 0, <<>>))

LinesFor ==
    /\ Running
    /\ \E delimiter \in Bytes : LinesForOf(delimiter)

\* one range-for over chars(), run to its end
CharsFor ==
    /\ Running
    /\ \E o \in chars_loop(reader, disk, fds, vm, <<>>) : ReaderDone("r_chars_for", o)

ReaderNext ==
    \/ View
    \/ Str
    \/ LinesFor
    \/ CharsFor
    \/ ReaderOpenPath
    \/ ReaderOpenFd
    \/ ReaderClose
    \/ ReaderSeek
    \/ ReaderSeekDir
    \/ Read
    \/ PRead
    \/ GetLine
    \/ GetChar
    \/ LinesDeref
    \/ CharsDeref

\* a reader over a file that some other program wrote
ReaderInit ==
    /\ disk \in ReaderFiles
    /\ fds = [f \in Fds |-> f = CallerFd]
    /\ vm = [a \in Addrs |-> 0]
    /\ proc = "run"
    /\ writer = NoWriter
    /\ reader = NoReader
    /\ last = NoCall
    /\ written = NotPure
    /\ ret = NoRet
    /\ mfile = NoMappedFile
    /\ mdst = NoMappedFile
    /\ dst = NoDst
    /\ own = NoOwn
    /\ teardown = NoTeardown

ReaderSpec == ReaderInit /\ [][ReaderNext]_vars

\* a writer that only appends, and a reader that opens the file it wrote
RoundTripNext ==
    \/ ConstructPath
    \/ Write
    \/ ShrinkToFit
    \/ Flush
    \/ Destroy
    \/ ReaderOpenPath
    \/ ReaderClose

RoundTripSpec == Init /\ [][RoundTripNext]_vars

\* ------------------------------------------------------------- reader moves
\* a move between the two readers that ended with the world as given
Moved(op, r, d, t, v) ==
    /\ reader' = r
    /\ dst' = d
    /\ own' = CASE op \in {"r_move_ctor", "r_move_assign"} ->
                      [reader |-> FALSE, dst |-> own.reader]
                 [] op = "r_move_back" -> [reader |-> own.dst, dst |-> FALSE]
                 [] op = "r_dst_dtor" -> [own EXCEPT !.dst = FALSE]
                 [] OTHER -> own
    /\ fds' = t
    /\ vm' = v
    /\ ret' = NoRet
    /\ last' = Call(op, "ok", FALSE)
    /\ teardown' = NoTeardown
    /\ UNCHANGED <<disk, proc, writer, written, mfile, mdst>>

\* mmap_reader dst(std::move(reader))
MoveConstruct ==
    /\ Running
    /\ ~dst.live
    /\ LET m == reader_move_ctor(reader) IN
         Moved("r_move_ctor", m.that, [live |-> TRUE, r |-> m.this], fds, vm)

\* dst = std::move(reader)
MoveAssign ==
    /\ Running
    /\ dst.live
    /\ LET m == reader_move_assign(dst.r, reader, fds, vm) IN
         Moved("r_move_assign", m.that, [dst EXCEPT !.r = m.this], m.fds, m.vm)

\* reader = std::move(dst)
MoveAssignBack ==
    /\ Running
    /\ dst.live
    /\ LET m == reader_move_assign(reader, dst.r, fds, vm) IN
         Moved("r_move_back", m.this, [dst EXCEPT !.r = m.that], m.fds, m.vm)

\* reader = std::move(reader): this == &that, nothing is done
SelfMoveAssign ==
    /\ Running
    /\ Moved("r_move_self", reader, dst, fds, vm)

\* ~mmap_reader of dst: close()
DstDestroy ==
    /\ Running
    /\ dst.live
    /\ LET c == reader_close(dst.r, fds, vm) IN
         Moved("r_dst_dtor", reader, NoDst, c.fds, c.vm)

MoveNext ==
    \/ ReaderOpenPath
    \/ ReaderOpenFd
    \/ ReaderClose
    \/ ReaderSeek
    \/ MoveConstruct
    \/ MoveAssign
    \/ MoveAssignBack
    \/ SelfMoveAssign
    \/ DstDestroy

MoveSpec == Init /\ [][MoveNext]_vars

\* ------------------------------------------------------------- teardown
\* a mapped_file call that ended as outcome o
MappedFileDone(op, res, o) ==
    /\ mfile' = o.mfile
    /\ fds' = o.fds
    /\ vm' = o.vm
    /\ last' = Call(op, res, FALSE)
    /\ UNCHANGED <<disk, proc, writer, reader, written, ret, mdst, dst, own>>

MappedFileDefault ==
    /\ Running
    /\ mfile.state = "none"
    /\ MappedFileDone("m_default", "ok",
                      [mfile |-> [NoMappedFile EXCEPT !.state = "live"], fds |-> fds, vm |-> vm])
    /\ teardown' = NoTeardown

MappedFilePath ==
    /\ Running
    /\ mfile.state = "none"
    /\ \E o \in mapped_file_path(disk, fds, vm) : MappedFileDone("m_path", o.res, o)
    /\ teardown' = NoTeardown

MappedFileFd ==
    /\ Running
    /\ mfile.state = "none"
    /\ \E map_fd \in FdArgs :
         \E o \in mapped_file_fd(disk, fds, vm, map_fd) : MappedFileDone("m_fd", o.res, o)
    /\ teardown' = NoTeardown

\* unmap() on a live object; the destructor of an object is one more unmap()
MappedFileUnmap ==
    /\ Running
    /\ mfile.state = "live"
    /\ LET u == unmap(mfile, fds, vm) IN
         /\ MappedFileDone("unmap", "ok", u)
         /\ teardown' = Torn("unmap", mfile.fd_ # NoFd, u.issued)

\* the older writer's constructor: it throws, so no object ever exists for
\* its close() or destructor to run on
CppConstruct ==
    /\ Running
    /\ \E truncate \in BOOLEAN :
         \E o \in cpp_open_file(disk, fds, truncate) :
            /\ disk' = o.disk
            /\ fds' = o.fds
            /\ last' = Call("cpp_ctor", o.res, FALSE)
    /\ teardown' = NoTeardown
    /\ UNCHANGED <<vm, proc, writer, reader, written, ret, mfile, mdst, dst, own>>

TeardownNext ==
    \/ ReaderOpenPath
    \/ ReaderOpenFd
    \/ ReaderClose
    \/ MappedFileDefault
    \/ MappedFilePath
    \/ MappedFileFd
    \/ MappedFileUnmap
    \/ CppConstruct

TeardownSpec == Init /\ [][TeardownNext]_vars

\* ------------------------------------------------------------- mapped_file moves
\* a call on the second mapped_file, or a move between the two, that ended
\* with the world as given
MappedMoved(op, m, d, t, v) ==
    /\ mfile' = m
    /\ mdst' = d
    /\ fds' = t
    /\ vm' = v
    /\ last' = Call(op, "ok", FALSE)
    /\ teardown' = NoTeardown
    /\ UNCHANGED <<disk, proc, writer, reader, written, ret, dst, own>>

\* mapped_file mdst;
MappedDstDefault ==
    /\ Running
    /\ mdst.state = "none"
    /\ MappedMoved("m_dst_default", mfile, [NoMappedFile EXCEPT !.state = "live"], fds, vm)

\* mapped_file mdst(std::move(mfile))
MappedMoveConstruct ==
    /\ Running
    /\ mfile.state = "live"
    /\ mdst.state = "none"
    /\ LET m == mapped_file_move_ctor(mfile) IN
         MappedMoved("m_move_ctor", m.that, m.this, fds, vm)

\* mdst = std::move(mfile)
MappedMoveAssign ==
    /\ Running
    /\ mfile.state = "live"
    /\ mdst.state = "live"
    /\ LET m == mapped_file_move_assign(mdst, mfile, fds, vm) IN
         MappedMoved("m_move_assign", m.that, m.this, m.fds, m.vm)

\* mfile = std::move(mdst)
MappedMoveAssignBack ==
    /\ Running
    /\ mfile.state = "live"
    /\ mdst.state = "live"
    /\ LET m == mapped_file_move_assign(mfile, mdst, fds, vm) IN
         MappedMoved("m_move_back", m.this, m.that, m.fds, m.vm)

\* ~mapped_file of mdst: unmap()
MappedDstDestroy ==
    /\ Running
    /\ mdst.state = "live"
    /\ LET u == unmap(mdst, fds, vm) IN
         MappedMoved("m_dst_dtor", mfile, NoMappedFile, u.fds, u.vm)

MappedMoveNext ==
    \/ MappedFileDefault
    \/ MappedFilePath
    \/ MappedFileFd
    \/ MappedFileUnmap
    \/ MappedDstDefault
    \/ MappedMoveConstruct
    \/ MappedMoveAssign
    \/ MappedMoveAssignBack
    \/ MappedDstDestroy

MappedMoveSpec == ReaderInit /\ [][MappedMoveNext]_vars

\* ------------------------------------------------------------- claims
\* the bytes the writer sees through its mapping at offsets [from, to)
WriterBytes(from, to) == Mapped(vm, disk, writer.mapped_ptr, from, to)

GrowOps == {"write", "pwrite", "seek", "seek_dir"}

\* C1: when a writer whose high_water is within its capacity is destroyed, the
\* file's length becomes the writer's high_water (max_write_pos) and the file's
\* first high_water bytes are the bytes the mapping held just before
C1_TeardownPersistsHighWater ==
    [][(last'.op = "dtor" /\ writer.max_write_pos <= writer.file_size) =>
         /\ Len(disk') = writer.max_write_pos
         /\ disk' = WriterBytes(0, writer.max_write_pos)]_vars

\* C2: an open writer always has 0 <= write_pos <= high_water <= capacity
C2_CursorOrder ==
    WriterOpen =>
        /\ 0 <= writer.write_pos
        /\ writer.write_pos <= writer.max_write_pos
        /\ writer.max_write_pos <= writer.file_size

\* C5: a write(b) that returns, issued at write_pos = p, leaves b in the
\* mapping at [p, p + |b|), write_pos = p + |b| and
\* high_water = max(old high_water, p + |b|), also when the mapping moved
C5_WritePostcondition ==
    [][(last'.op = "write" /\ last'.res = "ok") =>
       \A data \in Data :
         WriteOf(data) =>
            LET p == writer.write_pos IN
            /\ Mapped(vm', disk', writer'.mapped_ptr, p, p + Len(data)) = data
            /\ writer'.write_pos = p + Len(data)
            /\ writer'.max_write_pos = Max(writer.max_write_pos, p + Len(data))]_vars

\* a write of at least one byte returned after a grow that moved the mapping
C5_Witness ==
    /\ last.op = "write" /\ last.res = "ok" /\ last.moved
    /\ writer.write_pos > 0
    /\ writer.state = "open"

\* C6: a pwrite(b, off) that returns leaves b in the mapping at
\* [off, off + |b|), write_pos as it was and
\* high_water = max(old high_water, off + |b|), for every off
C6_PWritePostcondition ==
    [][(last'.op = "pwrite" /\ last'.res = "ok") =>
       \A data \in Data, offset \in Offsets :
         PWriteOf(data, offset) =>
            /\ Mapped(vm', disk', writer'.mapped_ptr, offset, offset + Len(data)) = data
            /\ writer'.write_pos = writer.write_pos
            /\ writer'.max_write_pos = Max(writer.max_write_pos, offset + Len(data))]_vars

\* C8: a write, pwrite, seek or shrink_to_fit that raises leaves write_pos,
\* high_water, capacity, the mapped bytes and the file's length as they were
C8_FailureLeavesState ==
    [][(last'.res = "throw" /\ last'.op \in GrowOps \cup {"shrink_to_fit"}) =>
         /\ writer'.write_pos = writer.write_pos
         /\ writer'.max_write_pos = writer.max_write_pos
         /\ writer'.file_size = writer.file_size
         /\ Len(disk') = Len(disk)
         /\ Mapped(vm', disk', writer'.mapped_ptr, 0, writer'.file_size)
              = WriterBytes(0, writer.file_size)]_vars

\* C9: a writer destroyed right after a grow failed, in a state where
\* high_water <= capacity, leaves a file whose length is the high_water it had
\* before the failed call (a failed call leaves high_water as it was)
C9_TeardownAfterFailedGrow ==
    [][(/\ last.res = "throw" /\ last.op \in GrowOps
        /\ writer.max_write_pos <= writer.file_size
        /\ last'.op = "dtor") =>
         Len(disk') = writer.max_write_pos]_vars

\* C10: while a writer is open, capacity() is the length of the file
C10_CapacityIsFileLength ==
    WriterOpen => writer.file_size = Len(disk)

\* C3: a reader's cursor never passes the end of what it mapped:
\* 0 <= read_pos (current_offset) <= capacity (map_size)
C3_ReadCursorInRange ==
    0 <= reader.current_offset /\ reader.current_offset <= reader.map_size

\* C4: once the reader has been closed (close(), which the destructor runs),
\* the descriptor the caller opened is still open, also when the reader had
\* been opened from it
C4_CallerHandleStaysOpen == last.op = "r_close" => fds[CallerFd]

\* the reader has just opened the file that a writer built on an emptied file
\* wrote with write() calls alone and then flushed
RoundTripRead ==
    /\ last.op = "r_open_path" /\ last.res = "ok"
    /\ written.pure /\ written.fresh /\ written.flushed
    /\ writer.should_close

\* what view() of the reader returns: the whole mapping
ReaderView == Mapped(vm, disk, reader.mapped_ptr, 0, reader.map_size)

C11_HighWaterMonotone ==
    [][(writer.state = "open" /\ writer'.state = "open") =>
         writer'.max_write_pos >= writer.max_write_pos]_vars

\* a seek went back below high_water
C11_Witness ==
    /\ WriterOpen
    /\ last.op \in {"seek", "seek_dir"} /\ last.res = "ok"
    /\ writer.write_pos < writer.max_write_pos

\* a constructor call with these arguments returned in this step
ConstructedOf(truncate, reserved_size) ==
    /\ last'.op \in {"ctor_path", "ctor_fd"} /\ last'.res = "ok"
    /\ \/ ConstructPathOf(truncate, reserved_size)
       \/ \E fd \in FdArgs : ConstructFdOf(fd, truncate, reserved_size)

\* C12: a writer built with truncate = true, from a path or from a descriptor,
\* starts with write_pos = high_water = 0 over a file that holds none of its
\* previous bytes (every byte of the file and of the mapping is zero fill)
C12_TruncateEmptiesFile ==
    [][\A reserved_size \in Reserved :
         ConstructedOf(TRUE, reserved_size) =>
            /\ writer'.write_pos = 0
            /\ writer'.max_write_pos = 0
            /\ disk' = Zeros(Len(disk'))]_vars

\* C13: a writer built with truncate = false on a file of length L starts with
\* write_pos = high_water = L over a file that still begins with its L bytes;
\* when only write() was called on it, the file after teardown is those bytes
\* followed by the bytes written
C13_AppendKeepsContent ==
    [][/\ \A reserved_size \in Reserved :
            ConstructedOf(FALSE, reserved_size) =>
               /\ writer'.write_pos = Len(disk)
               /\ writer'.max_write_pos = Len(disk)
               /\ Len(disk') >= Len(disk)
               /\ SubSeq(disk', 1, Len(disk)) = disk
       /\ (last'.op = "dtor" /\ written.pure /\ ~written.fresh) =>
               disk' = written.bytes]_vars

\* the length init finds: a path opened with truncate is empty by then
FoundLength(by_path, truncate) == IF by_path /\ truncate THEN 0 ELSE Len(disk)

\* a constructor call of this kind returned in this step
ConstructedBy(by_path, truncate, reserved_size) ==
    /\ last'.op \in {"ctor_path", "ctor_fd"} /\ last'.res = "ok"
    /\ IF by_path THEN ConstructPathOf(truncate, reserved_size)
       ELSE \E fd \in FdArgs : ConstructFdOf(fd, truncate, reserved_size)

\* C14 as stated: the initial capacity is the largest of the file's length,
\* reserved_size and, for an empty file without reservation, the default
C14_InitialCapacityMax ==
    [][\A by_path \in BOOLEAN, truncate \in BOOLEAN, reserved_size \in Reserved :
         ConstructedBy(by_path, truncate, reserved_size) =>
            LET L == FoundLength(by_path, truncate) IN
            writer'.file_size =
                Max(Max(L, reserved_size),
                    IF L = 0 /\ reserved_size = 0 THEN DefaultExpand ELSE 0)]_vars

\* C14 as the code has it: an empty file gets reserved_size, or the default
\* when reserved_size is 0; a file that holds bytes gets its length plus
\* reserved_size, the sum taken in size_t
C14_InitialCapacitySum ==
    [][\A by_path \in BOOLEAN, truncate \in BOOLEAN, reserved_size \in Reserved :
         ConstructedBy(by_path, truncate, reserved_size) =>
            LET L == FoundLength(by_path, truncate) IN
            /\ writer'.file_size =
                 IF L = 0 THEN (IF reserved_size > 0 THEN reserved_size ELSE DefaultExpand)
                 ELSE (L + reserved_size) % SizeMod
            /\ Len(disk') = writer'.file_size]_vars

\* a writer was built over a file that holds bytes, with room reserved after them
C14_Witness ==
    /\ last.op \in {"ctor_path", "ctor_fd"} /\ last.res = "ok"
    /\ writer.write_pos > 0
    /\ writer.file_size > writer.write_pos
    /\ Len(disk) = writer.file_size

\* where the specification puts the cursor for seek(off, dir)
SeekDestination(off, dir) ==
    CASE dir = "beg" -> Max(off, 0)
      [] dir = "cur" -> Max(writer.write_pos + off, 0)
      [] dir = "end" -> Max(writer.max_write_pos + off, 0)

\* C15: a writer seek(off, dir) that returns leaves tell() at max(off, 0) for
\* beg, at write_pos + off for cur and at high_water + off for end, the last
\* two not below 0; the capacity grew if and only if the destination was beyond
\* it, tell() <= capacity, and high_water = max(old high_water, destination)
C15_WriterSeekDestination ==
    [][(last'.op = "seek_dir" /\ last'.res = "ok") =>
       \A off \in SeekOffs, dir \in SeekDirs :
         SeekDirOf(off, dir) =>
            LET dest == SeekDestination(off, dir) IN
            /\ writer'.write_pos = dest
            /\ dest <= writer'.file_size
            /\ (dest > writer.file_size) = (writer'.file_size > writer.file_size)
            /\ writer'.file_size >= writer.file_size
            /\ writer'.max_write_pos = Max(writer.max_write_pos, dest)]_vars

\* a seek(off, dir) beyond the capacity returned after a grow that moved the
\* mapping
C15_Witness ==
    /\ last.op = "seek_dir" /\ last.res = "ok" /\ last.moved
    /\ writer.write_pos = writer.max_write_pos
    /\ writer.write_pos > 0

\* where the specification puts the reader's cursor for seek(off, dir)
ReaderSeekDestination(off, dir) ==
    CASE dir = "beg" -> IF off < 0 THEN 0 ELSE Min(off, reader.map_size)
      [] dir = "cur" -> Max(0, Min(reader.current_offset + off, reader.map_size))
      [] dir = "end" -> IF off >= 0 THEN reader.map_size
                        ELSE Max(reader.map_size + off, 0)

\* C16: a reader seek returns and leaves the cursor at min(pos, capacity) for
\* seek(pos), and for seek(off, dir) at the destination clamped to
\* [0, capacity]
C16_ReaderSeekClamps ==
    [][/\ last'.op = "r_seek" =>
            \A pos \in Offsets :
               ReaderSeekOf(pos) =>
                  /\ last'.res = "ok"
                  /\ reader'.current_offset = Min(pos, reader.map_size)
       /\ last'.op = "r_seek_dir" =>
            \A off \in SeekOffs, dir \in SeekDirs :
               ReaderSeekDirOf(off, dir) =>
                  /\ last'.res = "ok"
                  /\ reader'.current_offset = ReaderSeekDestination(off, dir)]_vars

C18_ShrinkToFit ==
    [][/\ (/\ last'.op = "shrink_to_fit" /\ last'.res = "ok"
           /\ writer.max_write_pos <= writer.file_size) =>
            /\ writer'.file_size = writer'.max_write_pos
            /\ Len(disk') = writer'.max_write_pos
            /\ writer'.write_pos = writer.write_pos
            /\ writer'.max_write_pos = writer.max_write_pos
       /\ (last.op = "shrink_to_fit" /\ last.res = "ok" /\ last'.op = "shrink_to_fit") =>
            /\ last'.res = "ok"
            /\ writer' = writer /\ disk' = disk /\ vm' = vm /\ fds' = fds]_vars

\* C19: a close() (or destructor) of a reader that follows a close(), and an
\* unmap() (or destructor) of a mapped_file that follows an unmap(), makes no
\* munmap, ftruncate or close call and leaves the object, the descriptors,
\* the mappings and the file as they were
C19_TeardownIdempotent ==
    [][(last.op \in {"r_close", "unmap"} /\ last'.op = last.op) =>
          /\ teardown'.issued = {}
          /\ reader' = reader /\ mfile' = mfile
          /\ fds' = fds /\ vm' = vm /\ disk' = disk]_vars

\* a second teardown call in a row on an object the first one found open
C19_Witness ==
    /\ last.op \in {"r_close", "unmap"}
    /\ teardown.closes = 2
    /\ teardown.was_open
    /\ teardown.issued = {}

\* the offsets at or after the read cursor, below the reader's size(), where
\* the file holds delim
Hits(delim) ==
    {i \in reader.current_offset .. reader.map_size - 1 :
        i < Len(disk) /\ disk[i + 1] = delim}

\* what getline(delim) is to return and where it is to leave the cursor
GetLinePost(delim) ==
    LET p == reader.current_offset
        capacity == reader.map_size
        hit == CHOOSE i \in Hits(delim) : \A j \in Hits(delim) : i <= j
    IN  /\ last'.res = "ok"
        /\ IF p = capacity
           THEN ret' = NoRet /\ reader'.current_offset = p
           ELSE IF Hits(delim) # {}
           THEN /\ ret' = Ret(hit - p, SubSeq(disk, p + 1, hit))
                /\ reader'.current_offset = hit + 1
           ELSE /\ ret' = Ret(capacity - p, SubSeq(disk, p + 1, capacity))
                /\ reader'.current_offset = capacity

\* C20: getline(delim) at read_pos = p < capacity returns the bytes [p, hit)
\* up to the first delim at or after p and leaves the cursor at hit + 1; with
\* no delim in [p, capacity) it returns [p, capacity) and leaves the cursor at
\* capacity; at p = capacity it returns none and leaves the cursor alone
C20_GetLine ==
    [][(last'.op = "r_getline" /\ reader.current_offset <= reader.map_size) =>
          \A delim \in Bytes : GetLineOf(delim) => GetLinePost(delim)]_vars

\* the file ends with delim; how many bytes of the file are delim
EndsWith(d, delim) == Len(d) > 0 /\ d[Len(d)] = delim
Count(d, delim) == Cardinality({i \in 1 .. Len(d) : d[i] = delim})

\* C21: a range-for over lines(delim) from position 0 of a reader of a file
\* ends, the yielded lines each followed by delim make up the file exactly
\* when the file ends with delim, and then there are as many lines as the
\* file has delimiters (no empty line after the last one)
C21_LineRoundTrip ==
    [][(last'.op = "r_lines_for" /\ reader.current_offset = 0 /\ reader.map_size > 0) =>
          \A delim \in Bytes : LinesForOf(delim) =>
              /\ last'.res = "ok"
              /\ (ret'.bytes = disk) <=> EndsWith(disk, delim)
              /\ EndsWith(disk, delim) => ret'.n = Count(disk, delim)]_vars

\* C22: read(buf) at read_pos = p returns n = min(|buf|, capacity - p), has
\* copied the bytes [p, p + n) of the file and leaves read_pos = p + n; at
\* end of file it returns 0 and moves nothing (stated for an open reader)
C22_Read ==
    [][(last'.op = "r_read" /\ is_open(reader)) =>
          \A size \in BufSizes : ReadOf(size) =>
              LET p == reader.current_offset
                  n == IF eof(reader) THEN 0 ELSE Min(size, reader.map_size - p)
              IN  /\ last'.res = "ok"
                  /\ ret' = Ret(n, SubSeq(disk, p + 1, p + n))
                  /\ reader'.current_offset = p + n]_vars

\* C23: pread(buf, off) leaves read_pos alone; it returns 0 when off >=
\* capacity and otherwise n = min(|buf|, capacity - off), having copied the
\* bytes [off, off + n) of the file
C23_PRead ==
    [][last'.op = "r_pread" =>
          \A size \in BufSizes, off \in Offsets : PReadOf(size, off) =>
              LET n == IF off >= reader.map_size THEN 0
                       ELSE Min(size, reader.map_size - off)
              IN  /\ last'.res = "ok"
                  /\ reader'.current_offset = reader.current_offset
                  /\ ret' = Ret(n, SubSeq(disk, off + 1, off + n))]_vars

\* C24: view(off, len) and str(off, len) return, leave read_pos alone and
\* give a range inside the mapping: empty when off >= capacity, otherwise
\* the bytes [off, off + min(len, capacity - off)) of the file
C24_ViewInsideMapping ==
    [][last'.op \in {"r_view", "r_str"} =>
          \A off \in Offsets, len \in Lens : (ViewOf(off, len) \/ StrOf(off, len)) =>
              LET n == IF off >= reader.map_size THEN 0
                       ELSE Min(len, reader.map_size - off)
              IN  /\ last'.res = "ok"
                  /\ reader'.current_offset = reader.current_offset
                  /\ off + n <= reader.map_size \/ n = 0
                  /\ ret' = Ret(n, SubSeq(disk, off + 1, off + n))]_vars

\* the bytes and the handle an open reader object holds are released
Released(r) == ~is_open(r) \/ (vm'[r.mapped_ptr] = 0 /\ (r.fd \in Fds => ~fds'[r.fd]))

C27_HandleOwnership ==
    [][/\ last'.op = "ctor_fd" => fds' = fds
       /\ (last'.op = "ctor_path" /\ last'.res # "ok") => fds' = fds
       /\ (last'.op = "ctor_path" /\ last'.res = "ok") =>
            /\ writer'.fd \in Fds /\ ~fds[writer'.fd]
            /\ fds' = [fds EXCEPT ![writer'.fd] = TRUE]
       /\ (last'.op = "dtor" /\ ~writer.should_close) => fds' = fds
       /\ (last'.op = "dtor" /\ writer.should_close) =>
            /\ writer.fd \in Fds /\ fds[writer.fd]
            /\ fds' = [fds EXCEPT ![writer.fd] = FALSE]
       /\ last'.op \notin {"ctor_fd", "ctor_path", "dtor"} => fds' = fds]_vars

\* a writer built from the caller's descriptor was destroyed and the
\* descriptor is still open
C27_Witness ==
    /\ last.op = "dtor"
    /\ writer.state = "gone"
    /\ writer.fd = CallerFd /\ ~writer.should_close
    /\ fds[CallerFd]

\* the reader objects that exist, each with its ownership mark
Readers ==
    {[r |-> reader, own |-> own.reader]}
    \cup (IF dst.live THEN {[r |-> dst.r, own |-> own.dst]} ELSE {})

\* the readers that are open on the mapping at a / on the descriptor f
MapHolders(a) == {o \in Readers : is_open(o.r) /\ o.r.mapped_ptr = a}
FdHolders(f) == {o \in Readers : is_open(o.r) /\ o.r.fd = f}

\* C28: every mapping a reader made is held by exactly one open reader, with
\* its length, until that reader releases it (no leak, no second munmap);
\* every descriptor a reader opened is held by an open reader (none is left
\* open by a failed or repeated open) and stays open until its reader closes
\* it (no second close)
C28_ReleasedExactlyOnce ==
    /\ \A a \in Addrs : vm[a] > 0 =>
          /\ Cardinality(MapHolders(a)) = 1
          /\ \A o \in MapHolders(a) : o.r.map_size = vm[a]
    /\ \A o \in Readers : is_open(o.r) => vm[o.r.mapped_ptr] > 0
    /\ \A f \in Fds \ {CallerFd} : fds[f] => FdHolders(f) # {}
    /\ \A o \in Readers : o.own => fds[o.r.fd]

\* the smallest capacity + k * expand_size with k >= 1 that is >= R
SmallestStep(capacity, expand_size, R) ==
    capacity + expand_size * (((R - capacity) + expand_size - 1) \div expand_size)

\* what a returned call that needed R bytes leaves: capacity as it was when
\* R fits, else the stepped capacity with the file and the mapping of that
\* length; a call that threw leaves capacity and the mapping pointer alone
GrowPost(R) ==
    /\ (last'.res = "ok" /\ R <= writer.file_size) =>
           writer'.file_size = writer.file_size
    /\ (last'.res = "ok" /\ R > writer.file_size) =>
           /\ writer'.file_size =
                  SmallestStep(writer.file_size, writer.expand_size, R)
           /\ Len(disk') = writer'.file_size
           /\ vm'[writer'.mapped_ptr] = writer'.file_size
    /\ last'.res = "throw" =>
           /\ writer'.file_size = writer.file_size
           /\ writer'.mapped_ptr = writer.mapped_ptr

\* C29: a grow for a required size R > capacity sets capacity to the smallest
\* capacity + k * expand_size (k >= 1) that is >= R, gives the backing file
\* that length and moves the mapping pointer and capacity together; capacity
\* changes by no other amount in write, pwrite and the two seeks
C29_GrowBySteps ==
    [][/\ last'.op \in GrowOps => writer.state = "open"
       /\ last'.op \in {"write", "seek", "seek_dir"} =>
              GrowPost(IF last'.res = "ok" THEN writer'.write_pos
                       ELSE writer.file_size)
       /\ last'.op = "pwrite" =>
              \A data \in Data, offset \in Offsets :
                 \/ GrowPost((offset + Len(data)) % SizeMod)
                 \/ ~PWriteOf(data, offset)]_vars

\* a write grew a capacity of 1 by one step of 2 although it needed 2 bytes
C29_Witness ==
    /\ last.op = "write" /\ last.res = "ok"
    /\ writer.expand_size = 2 /\ writer.file_size = 3
    /\ writer.write_pos = 2
    /\ Len(disk) = 3 /\ vm[writer.mapped_ptr] = 3

\* getline(delimiter) called until it returns nullopt: the number of lines it
\* gave, each of them followed by the delimiter, and the reader it leaves
RECURSIVE GetLineUntilNone(_, _, _, _, _, _, _)
GetLineUntilNone(r, d, t, v, delimiter, n, acc) ==
    LET o == reader_getline(r, d, t, v, delimiter) IN
    IF o.res # "ok" THEN ROutcome(o.res, r, t, v, NoRet)
    ELSE IF ~o.ret.some THEN ROutcome("ok", r, t, v, Ret(n, acc))
    ELSE GetLineUntilNone(o.reader, d, t, v, delimiter, n + 1,
                          acc \o o.ret.bytes \o <<delimiter>>)

\* getchar() called until it returns nullopt
RECURSIVE GetCharUntilNone(_, _, _, _, _)
GetCharUntilNone(r, d, t, v, acc) ==
    LET o == reader_getchar(r, d, t, v) IN
    IF o.res # "ok" THEN ROutcome(o.res, r, t, v, NoRet)
    ELSE IF ~o.ret.some THEN ROutcome("ok", r, t, v, Ret(Len(acc), acc))
    ELSE GetCharUntilNone(o.reader, d, t, v, acc \o o.ret.bytes)

\* the pass ended at the end of the mapping, and a second pass over lines()
\* and over chars() from there yields nothing
PassOver ==
    /\ last'.res = "ok"
    /\ reader'.current_offset = reader'.map_size
    /\ \A delimiter \in Bytes :
          lines_loop(reader', disk', fds', vm', delimiter, 0, <<>>).ret.n = 0
    /\ \A o \in chars_loop(reader', disk', fds', vm', <<>>) : o.ret.n = 0

\* C30: from any read_pos a range-for over lines(delim) yields the values and
\* leaves the cursor that getline(delim) called until none does, a range-for
\* over chars() yields the bytes [read_pos, capacity) in order as getchar()
\* does, both end with read_pos = capacity, and a second pass yields nothing
C30_LazySequences ==
    [][/\ last'.op = "r_lines_for" =>
              /\ PassOver
              /\ \A delimiter \in Bytes :
                    LinesForOf(delimiter) =>
                       LET g == GetLineUntilNone(reader, disk, fds, vm,
                                                 delimiter, 0, <<>>)
                       IN  ret' = g.ret /\ reader' = g.reader
       /\ last'.op = "r_chars_for" =>
              /\ PassOver
              /\ LET g == GetCharUntilNone(reader, disk, fds, vm, <<>>)
                 IN  ret' = g.ret /\ reader' = g.reader
              /\ reader.current_offset <= reader.map_size
              /\ ret'.bytes = Loaded(reader, disk, vm, reader.current_offset,
                                     reader.map_size - reader.current_offset)]_vars

\* C31: the loop of expand that adds expand_size until the new capacity
\* reaches the required size always exits, in the width of size_t, whatever
\* set_expand_size was given and however large the required size: no write,
\* pwrite or seek ends with the process spinning in that loop
C31_GrowTerminates == ~(last.op \in GrowOps /\ last.res = "hang")

\* C32: a constructor called with truncate = false that throws (at the size
\* query, the initial resize or the initial mmap) leaves the backing file
\* with the length and the content it had before the call
C32_FailedConstructionKeepsFile ==
    [][(last'.op \in {"ctor_path", "ctor_fd"} /\ last'.res = "throw") =>
          \A reserved_size \in Reserved :
             /\ disk' = disk \/ ~ConstructPathOf(FALSE, reserved_size)
             /\ \A fd \in FdArgs :
                   disk' = disk \/ ~ConstructFdOf(fd, FALSE, reserved_size)]_vars

\* C33: a reader that is not open (default-constructed, closed, or after an
\* open that threw) has size() = 0 and tell() = 0, so that read, pread,
\* getline, getchar and view have no byte to touch
C33_NotOpenIsEmpty ==
    ~is_open(reader) => reader.map_size = 0 /\ reader.current_offset = 0

\* C34: a mapped_file built from a caller-provided descriptor and then
\* move-constructed or move-assigned into another mapped_file still does not
\* close that descriptor on teardown, and the moved-from object is closed
\* (not open, null pointer, length 0) and its teardown releases nothing
C34_OwnershipTravels ==
    [][(/\ last'.op \in {"m_move_ctor", "m_move_assign"}
        /\ mfile.fd_ # NoFd
        /\ ~mfile.is_internal_fd) =>
          /\ mdst'.fd_ = mfile.fd_
          /\ unmap(mdst', fds', vm').fds = fds'
          /\ mfile'.fd_ = NoFd /\ mfile'.addr_ = nullptr /\ mfile'.len_ = 0
          /\ unmap(mfile', fds', vm').issued = {}]_vars

====
